---- MODULE Spec2Model ----
(***************************************************************************)
(* feediverse: poll feeds, post the entries newer than the watermark       *)
(* config['updated'], save the new watermark.  Model of main(), get_feed() *)
(* and get_entry() of src/feediverse.py, and of the watermark's trip       *)
(* through the configuration file (read_config / save_config).             *)
(*                                                                         *)
(* Time is counted in ticks; TicksPerSecond ticks make one second.  An     *)
(* entry's 'updated' string is read twice by the code, by two parsers:     *)
(* dateutil.parser.parse (line 99, 124) keeps the fraction of a second,    *)
(* feedparser's updated_parsed (line 102) is a time.struct_time, whole     *)
(* seconds.  A string neither parser reads is "malformed": dateutil raises *)
(* and updated_parsed is None.                                             *)
(***************************************************************************)
EXTENDS Integers, Sequences, FiniteSets, TLC

\* ---------------------------------------------------------------- bounds
\* Feeds in the configuration.
MaxFeeds == 2
\* Entries in all the feeds of a configuration together, and in one feed.
MaxEntries == 3
\* Latest update time of an entry, in ticks.
MaxTime == 3
\* Runs of the program, one after the other.
MaxRuns == 2
\* Pieces (literal characters, replacement fields) of a template.
MaxTemplate == 2
\* Characters of an entry's title or link.
MaxText == 2
\* Largest max_chars a configuration sets, the default aside.
MaxChars == 2

\* ------------------------------------------------------------- constants
\* datetime(MINYEAR, 1, 1, ...) of read_config: before every entry.
MinTime == 0
\* Sub-second resolution of dateutil's datetime against updated_parsed.
TicksPerSecond == 2
\* Python's None, as get_feed's last_update.
None == -1
\* config.get('max_chars', 500), line 72.
DefaultMaxChars == 500

VARIABLES
    feeds,          \* config['feeds'] with what feedparser.parse returns for each
    file_updated,   \* the 'updated' string of the configuration file
    pc,             \* where the process is
    dry_run,        \* args.dry_run
    config_updated, \* config['updated'] in memory (get_feed's last_update)
    has_error,      \* main's has_error
    newest_post,    \* main's newest_post
    feed_i,         \* index of the feed the outer loop is at
    entries,        \* get_feed's sorted list, the part not yet yielded
    log,            \* what this run did, in order
    exit_code,      \* sys.exit's argument (1 after an uncaught exception)
    runs,           \* runs started so far
    posted,         \* per entry, the successful status_post calls of all runs (SpecHist)
    failed,         \* the entries whose status_post raised in some run (SpecHist)
    previous,       \* what the dry run before this one composed (SpecTwice)
    template,       \* feed['template'], as literal characters and replacement fields (SpecCompose)
    entry,          \* the dict get_entry returned (SpecCompose)
    max_chars,      \* config.get('max_chars', 500) (SpecCompose)
    status          \* the 'status' text of line 72 (SpecCompose)

vars == <<feeds, file_updated, pc, dry_run, config_updated, has_error,
          newest_post, feed_i, entries, log, exit_code, runs, posted, failed,
          previous, template, entry, max_chars, status>>

\* What composing a status text reads and writes.
compose_vars == <<template, entry, max_chars, status>>

\* ------------------------------------------------------------ timestamps
\* A timestamp string: date and whole seconds, fraction of a second.
Str(t) == [ok |-> TRUE, sec |-> t \div TicksPerSecond, frac |-> t % TicksPerSecond]
Malformed == [ok |-> FALSE, sec |-> 0, frac |-> 0]
Absent == [ok |-> FALSE, sec |-> 0, frac |-> 1]

dateutil_parse(s) == s.sec * TicksPerSecond + s.frac
updated_parsed(s) == s.sec
\* Faulty variant: the fraction of a second is dropped (timespec='seconds').
isoformat_seconds(t) == Str(t - (t % TicksPerSecond))
\* Line 89: datetime.isoformat keeps the fraction of a second.
isoformat(t) == Str(t)

Max(a, b) == IF a >= b THEN a ELSE b

\* ------------------------------------------------------------- the feeds
UpdatedStrings == {Str(t) : t \in 1..MaxTime} \cup {Malformed}

RECURSIVE SeqsUpTo(_, _)
SeqsUpTo(S, n) ==
    IF n = 0 THEN {<<>>}
    ELSE LET shorter == SeqsUpTo(S, n - 1)
         IN shorter \cup {Append(s, x) : s \in {q \in shorter : Len(q) = n - 1}, x \in S}

\* A feed: its entries' 'updated' strings in the order feedparser returns
\* them, and whether its template names only fields get_entry provides.
Feeds == [entries : SeqsUpTo(UpdatedStrings, MaxEntries), template_ok : BOOLEAN]

\* n feeds made of the k entries of flat: feed g holds the entries after
\* cut[g - 1] up to cut[g].
Split(flat, cut, tmpl) ==
    [g \in DOMAIN cut |->
        [entries |-> SubSeq(flat, (IF g = 1 THEN 0 ELSE cut[g - 1]) + 1, cut[g]),
         template_ok |-> tmpl[g]]]

\* -------------------------------------------------------------- get_feed
\* Faulty variant: the sort is descending (reverse=True).
BeforeDescending(raw, a, b) ==
    \/ updated_parsed(raw[a]) > updated_parsed(raw[b])
    \/ updated_parsed(raw[a]) = updated_parsed(raw[b]) /\ a < b

\* Line 102: list.sort is stable, the key is updated_parsed.
Before(raw, a, b) ==
    \/ updated_parsed(raw[a]) < updated_parsed(raw[b])
    \/ updated_parsed(raw[a]) = updated_parsed(raw[b]) /\ a < b

RECURSIVE Sorted(_, _)
Sorted(raw, S) ==
    IF S = {} THEN <<>>
    ELSE LET first == CHOOSE a \in S : \A b \in S \ {a} : Before(raw, a, b)
         IN <<first>> \o Sorted(raw, S \ {first})

\* Faulty variant: the filter keeps an entry updated at the watermark (>=).
KeptInclusive(raw, last_update) ==
    IF last_update # None
    THEN {i \in DOMAIN raw : dateutil_parse(raw[i]) >= last_update}
    ELSE DOMAIN raw

\* Lines 97-101: the entries kept, as positions in feed.entries.
Kept(raw, last_update) ==
    IF last_update # None
    THEN {i \in DOMAIN raw : dateutil_parse(raw[i]) > last_update}
    ELSE DOMAIN raw

\* Faulty variant: an entry whose timestamp does not parse is passed over.
FetchSkipsMalformed(raw, last_update) == FALSE

\* Lines 96-102 raise: the filter parses every entry (line 99); the sort
\* compares a None key with another key.
FetchRaises(raw, last_update) ==
    IF last_update # None
    THEN \E i \in DOMAIN raw : ~raw[i].ok
    ELSE Len(raw) >= 2 /\ \E i \in DOMAIN raw : ~raw[i].ok

get_feed(raw, last_update) == Sorted(raw, Kept(raw, last_update))

\* Line 124: get_entry parses 'updated' again.
GetEntryRaises(s) == ~s.ok
EntryUpdated(s) == dateutil_parse(s)

\* ------------------------------------------------------------ the config
\* read_config, lines 150-157.
read_config(stored) == IF stored = Absent THEN MinTime ELSE dateutil_parse(stored)

Event(op, f, e) == [op |-> op, feed |-> f, entry |-> e]

EntryIds == {<<f, e>> : f \in 1..MaxFeeds, e \in 1..MaxEntries}

\* ------------------------------------------------------------------ Init
\* ----------------------------------------------------------- status text
\* A text is a sequence of characters.
Chars == {"a", "b"}
Texts == SeqsUpTo(Chars, MaxText)

\* The keys of the dict get_entry returns, lines 117-125.
Fields == {"url", "link", "title", "summary", "content", "hashtags", "updated"}
\* A replacement field that names no key of that dict.
UnknownField == "author"

\* A template: literal characters and replacement fields {name}.
Pieces == [kind : {"lit"}, text : Chars] \cup
          [kind : {"field"}, text : Fields \cup {UnknownField}]
Templates == SeqsUpTo(Pieces, MaxTemplate)

\* get_entry, lines 107-125, for an entry with a title and a link and
\* without id, summary, content and tags: url falls back on the link (line
\* 116), summary and content are '' (lines 114-115), hashtags joins
\* nothing (lines 108-113, 122); the datetime of 'updated' formats as its
\* str(), one character here.
get_entry(title, link) ==
    [url |-> link, link |-> link, title |-> title, summary |-> <<>>,
     content |-> <<>>, hashtags |-> <<>>, updated |-> <<"0">>]
NoEntry == get_entry(<<>>, <<>>)

\* Line 72: str.format(**entry) raises KeyError for a field that is no key.
FormatRaises(tmpl, ent) ==
    \E k \in DOMAIN tmpl : tmpl[k].kind = "field" /\ tmpl[k].text \notin DOMAIN ent

\* Line 72: str.format(**entry), every field replaced by the entry's value.
RECURSIVE format(_, _)
format(tmpl, ent) ==
    IF tmpl = <<>> THEN <<>>
    ELSE (IF Head(tmpl).kind = "lit" THEN <<Head(tmpl).text>> ELSE ent[Head(tmpl).text])
         \o format(Tail(tmpl), ent)

\* Faulty variant: the slice keeps one character more.
SliceInclusive(text, n) ==
    IF n >= 0 THEN SubSeq(text, 1, IF n + 1 < Len(text) THEN n + 1 ELSE Len(text))
    ELSE SubSeq(text, 1, IF Len(text) + n + 1 > 0 THEN Len(text) + n + 1 ELSE 0)

\* Line 72: text[:n], Python's slice; a negative n counts from the end.
Slice(text, n) ==
    IF n >= 0 THEN SubSeq(text, 1, IF n < Len(text) THEN n ELSE Len(text))
    ELSE SubSeq(text, 1, IF Len(text) + n > 0 THEN Len(text) + n ELSE 0)

\* No dry run that reached its end before this one.
NoRun == [dry |-> FALSE, ended |-> FALSE, composed |-> <<>>]

\* Any configuration of up to MaxFeeds feeds, written by setup without
\* 'updated'; no run yet.
Init ==
    /\ \E n \in 0..MaxFeeds, k \in 0..MaxEntries :
          \E flat \in [1..k -> UpdatedStrings], cut \in [1..n -> 0..k], tmpl \in [1..n -> BOOLEAN] :
              /\ \A g \in 1..n : g > 1 => cut[g - 1] <= cut[g]
              /\ n > 0 => cut[n] = k
              /\ n = 0 => k = 0
              /\ feeds = Split(flat, cut, tmpl)
    /\ file_updated = Absent
    /\ pc = "idle"
    /\ dry_run = FALSE
    /\ config_updated = MinTime
    /\ has_error = FALSE
    /\ newest_post = MinTime
    /\ feed_i = 0
    /\ entries = <<>>
    /\ log = <<>>
    /\ exit_code = 0
    /\ runs = 0
    /\ posted = [id \in EntryIds |-> 0]
    /\ failed = {}
    /\ previous = NoRun
    /\ template = <<>>
    /\ entry = NoEntry
    /\ max_chars = DefaultMaxChars
    /\ status = <<>>

\* --------------------------------------------------------------- actions
\* Lines 42-63: a run starts, live or dry.
StartRun ==
    /\ pc \in {"idle", "exited", "aborted"}
    /\ runs < MaxRuns
    /\ \E d \in BOOLEAN : dry_run' = d
    /\ runs' = runs + 1
    /\ config_updated' = read_config(file_updated)
    /\ newest_post' = read_config(file_updated)
    /\ has_error' = FALSE
    /\ feed_i' = 1
    /\ entries' = <<>>
    /\ log' = <<>>
    /\ exit_code' = 0
    /\ pc' = "feeds"
    /\ UNCHANGED <<feeds, file_updated>>
    /\ UNCHANGED compose_vars

\* Faulty variant: the watermark is saved on the way out of an exception
\* too, as in a finally clause.
SavedInFinally(stored, dry, newest) == IF dry THEN stored ELSE isoformat(newest)

\* Lines 88-90 are not reached by an exception that leaves the loops: the
\* file keeps the string it has.
Unsaved(stored, dry, newest) == stored

\* Faulty variant: get_feed is given the running watermark.
LastUpdateRunning(entered, newest) == newest

\* Line 67: get_feed's last_update is config['updated'], not newest_post.
LastUpdate(entered, newest) == entered

\* Lines 64-67 and 96-102: the next feed is fetched, filtered and sorted.
FetchFeed ==
    /\ pc = "feeds"
    /\ feed_i <= Len(feeds)
    /\ LET raw == feeds[feed_i].entries
           last_update == LastUpdate(config_updated, newest_post)
       IN IF FetchRaises(raw, last_update)
          THEN /\ pc' = "aborted"
               /\ exit_code' = 1
               /\ entries' = <<>>
               /\ log' = Append(log, Event("raise", feed_i, 0))
               /\ file_updated' = Unsaved(file_updated, dry_run, newest_post)
          ELSE /\ pc' = "entries"
               /\ exit_code' = exit_code
               /\ entries' = get_feed(raw, last_update)
               /\ log' = Append(log, Event("fetch", feed_i, 0))
               /\ file_updated' = file_updated
    /\ UNCHANGED <<feeds, dry_run, config_updated, has_error,
                   newest_post, feed_i, runs>>
    /\ UNCHANGED compose_vars

\* Faulty variant: the running watermark is the last entry's time, not the maximum.
AdvanceToLast(newest, updated) == updated

\* Line 69.
Advance(newest, updated) == Max(newest, updated)

\* Faulty variant: continue instead of break.
BreakAsContinue(rest) == rest

\* Line 83: break leaves the inner loop, the rest of the generator is dropped.
Break(rest) == <<>>

\* Faulty variant: no pause after a post.
NoDelay(f, e) == <<>>

\* Line 86: time.sleep(args.sleep) once status_post has returned.
Delay(f, e) == <<Event("sleep", f, e)>>

\* Lines 103-104 and 68-86: one entry is yielded and handled.  ok is
\* whether masto.status_post returns (TRUE) or raises MastodonError.
ProcessEntry(ok) ==
    /\ pc = "entries"
    /\ entries # <<>>
    /\ LET e == Head(entries)
           s == feeds[feed_i].entries[e]
       IN IF GetEntryRaises(s)
          THEN /\ pc' = "aborted"
               /\ exit_code' = 1
               /\ log' = Append(log, Event("raise", feed_i, e))
               /\ file_updated' = Unsaved(file_updated, dry_run, newest_post)
               /\ UNCHANGED <<newest_post, entries, has_error>>
          ELSE /\ newest_post' = Advance(newest_post, EntryUpdated(s))
               /\ IF ~feeds[feed_i].template_ok
                  THEN /\ pc' = "aborted"
                       /\ exit_code' = 1
                       /\ log' = Append(log, Event("raise", feed_i, e))
                       /\ file_updated' = Unsaved(file_updated, dry_run, newest_post')
                       /\ UNCHANGED <<entries, has_error>>
                  ELSE IF dry_run
                  THEN /\ log' = log \o <<Event("compose", feed_i, e),
                                          Event("pprint", feed_i, e)>>
                       /\ entries' = Tail(entries)
                       /\ UNCHANGED <<pc, exit_code, has_error, file_updated>>
                  ELSE IF ok
                  THEN /\ log' = log \o <<Event("compose", feed_i, e),
                                          Event("post", feed_i, e)>>
                                     \o Delay(feed_i, e)
                       /\ entries' = Tail(entries)
                       /\ UNCHANGED <<pc, exit_code, has_error, file_updated>>
                  ELSE /\ log' = log \o <<Event("compose", feed_i, e),
                                          Event("fail", feed_i, e)>>
                       /\ has_error' = TRUE
                       /\ entries' = Break(Tail(entries))
                       /\ UNCHANGED <<pc, exit_code, file_updated>>
    /\ UNCHANGED <<feeds, dry_run, config_updated, feed_i, runs>>
    /\ UNCHANGED compose_vars

\* Lines 103 and 64: the generator is exhausted or the inner loop was left,
\* the outer loop moves on.
EndFeed ==
    /\ pc = "entries"
    /\ entries = <<>>
    /\ feed_i' = feed_i + 1
    /\ pc' = "feeds"
    /\ UNCHANGED <<feeds, file_updated, dry_run, config_updated, has_error,
                   newest_post, entries, log, exit_code, runs>>
    /\ UNCHANGED compose_vars

\* Faulty variant: the loop over the feeds is left before the last feed.
LoopOverEarly(i, n) == i >= n

\* Line 64: the for loop has gone through config['feeds'].
LoopOver(i, n) == i > n

\* Faulty variant: the watermark is saved in a dry run too.
SavedAlways(stored, dry, newest) == isoformat(newest)

\* Lines 88-90.
Saved(stored, dry, newest) == IF dry THEN stored ELSE isoformat(newest)

\* Faulty variant: the exit code ignores the error flag.
ExitCodeZero(err) == 0

\* Line 92.
ExitCode(err) == IF err THEN 1 ELSE 0

\* Lines 88-92: the loop over the feeds is over.  config['updated'] in
\* memory becomes the saved string and dies with the process: config_updated
\* keeps the watermark the run was entered with.
Finish ==
    /\ pc = "feeds"
    /\ LoopOver(feed_i, Len(feeds))
    /\ file_updated' = Saved(file_updated, dry_run, newest_post)
    /\ exit_code' = ExitCode(has_error)
    /\ log' = IF dry_run THEN log ELSE Append(log, Event("save", 0, 0))
    /\ pc' = "exited"
    /\ UNCHANGED <<feeds, dry_run, config_updated, has_error, newest_post,
                   feed_i, entries, runs>>
    /\ UNCHANGED compose_vars

\* The program, without a record of what earlier runs posted.
Forget == UNCHANGED <<posted, failed, previous>>

Next ==
    \/ StartRun /\ Forget
    \/ FetchFeed /\ Forget
    \/ \E ok \in BOOLEAN : ProcessEntry(ok) /\ Forget
    \/ EndFeed /\ Forget
    \/ Finish /\ Forget

Spec == Init /\ [][Next]_vars

\* The same program, with posted and failed kept across the runs: every
\* status_post call the step logged is counted.
Logged == SubSeq(log', Len(log) + 1, Len(log'))
Record ==
    /\ posted' = [id \in EntryIds |->
                     IF \E k \in DOMAIN Logged : Logged[k] = Event("post", id[1], id[2])
                     THEN posted[id] + 1 ELSE posted[id]]
    /\ failed' = failed \cup {id \in EntryIds :
                     \E k \in DOMAIN Logged : Logged[k] = Event("fail", id[1], id[2])}
    /\ previous' = previous

NextHist ==
    \/ StartRun /\ Record
    \/ FetchFeed /\ Record
    \/ \E ok \in BOOLEAN : ProcessEntry(ok) /\ Record
    \/ EndFeed /\ Record
    \/ Finish /\ Record

SpecHist == Init /\ [][NextHist]_vars

\* The same program, with what the run before composed kept at the start
\* of a run, when that run was a dry run that reached its end: per feed
\* the entries it composed a status for, in order.
Composed(g) == SelectSeq(log, LAMBDA ev : ev.op = "compose" /\ ev.feed = g)
Remember ==
    /\ UNCHANGED <<posted, failed>>
    /\ previous' = IF runs' = runs THEN previous
                   ELSE IF dry_run /\ pc = "exited"
                        THEN [dry |-> TRUE, ended |-> TRUE,
                              composed |-> [g \in DOMAIN feeds |-> Composed(g)]]
                        ELSE NoRun

NextTwice ==
    \/ StartRun /\ Remember
    \/ FetchFeed /\ Remember
    \/ \E ok \in BOOLEAN : ProcessEntry(ok) /\ Remember
    \/ EndFeed /\ Remember
    \/ Finish /\ Remember

SpecTwice == Init /\ [][NextTwice]_vars

\* ------------------------------------------------ get_feed called alone
\* get_feed(feed_url, last_update) on any feed, with any watermark or None,
\* iterated to its end.  log holds what it yielded.
InitFetch ==
    /\ feeds \in {<<f>> : f \in {g \in Feeds : g.template_ok}}
    /\ config_updated \in {None} \cup (MinTime..MaxTime)
    /\ file_updated = Absent
    /\ pc = "gf_call"
    /\ dry_run = FALSE
    /\ has_error = FALSE
    /\ newest_post = MinTime
    /\ feed_i = 1
    /\ entries = <<>>
    /\ log = <<>>
    /\ exit_code = 0
    /\ runs = 0
    /\ posted = [id \in EntryIds |-> 0]
    /\ failed = {}
    /\ previous = NoRun
    /\ template = <<>>
    /\ entry = NoEntry
    /\ max_chars = DefaultMaxChars
    /\ status = <<>>

\* Lines 96-102, run by the first next() on the generator.
GfCall ==
    /\ pc = "gf_call"
    /\ LET raw == feeds[feed_i].entries
       IN IF FetchRaises(raw, config_updated)
          THEN /\ pc' = "gf_raised"
               /\ entries' = <<>>
          ELSE /\ pc' = "gf_iter"
               /\ entries' = get_feed(raw, config_updated)
    /\ UNCHANGED <<feeds, file_updated, dry_run, config_updated, has_error,
                   newest_post, feed_i, log, exit_code, runs, posted, failed,
                   previous>>
    /\ UNCHANGED compose_vars

\* Lines 103-104: yield get_entry(entry).
GfNext ==
    /\ pc = "gf_iter"
    /\ entries # <<>>
    /\ LET e == Head(entries)
       IN IF GetEntryRaises(feeds[feed_i].entries[e])
          THEN /\ pc' = "gf_raised"
               /\ UNCHANGED <<entries, log>>
          ELSE /\ pc' = pc
               /\ entries' = Tail(entries)
               /\ log' = Append(log, Event("yield", feed_i, e))
    /\ UNCHANGED <<feeds, file_updated, dry_run, config_updated, has_error,
                   newest_post, feed_i, exit_code, runs, posted, failed,
                   previous>>
    /\ UNCHANGED compose_vars

\* Line 103: StopIteration.
GfStop ==
    /\ pc = "gf_iter"
    /\ entries = <<>>
    /\ pc' = "gf_done"
    /\ UNCHANGED <<feeds, file_updated, dry_run, config_updated, has_error,
                   newest_post, feed_i, entries, log, exit_code, runs, posted, failed,
                   previous>>
    /\ UNCHANGED compose_vars

NextFetch == GfCall \/ GfNext \/ GfStop

SpecFetch == InitFetch /\ [][NextFetch]_vars

\* ------------------------------------------- a status composed alone
\* Lines 71-74 on any entry, template and max_chars.
InitCompose ==
    /\ template \in Templates
    /\ \E title \in Texts, link \in Texts : entry = get_entry(title, link)
    /\ max_chars \in {-1, DefaultMaxChars} \cup (0..MaxChars)
    /\ status = <<>>
    /\ pc = "compose_call"
    /\ feeds = <<>>
    /\ file_updated = Absent
    /\ dry_run = FALSE
    /\ config_updated = MinTime
    /\ has_error = FALSE
    /\ newest_post = MinTime
    /\ feed_i = 0
    /\ entries = <<>>
    /\ log = <<>>
    /\ exit_code = 0
    /\ runs = 0
    /\ posted = [id \in EntryIds |-> 0]
    /\ failed = {}
    /\ previous = NoRun

\* Line 72: feed['template'].format(**entry)[:config.get('max_chars', 500)].
Compose ==
    /\ pc = "compose_call"
    /\ IF FormatRaises(template, entry)
       THEN pc' = "compose_raised" /\ status' = status
       ELSE pc' = "composed" /\ status' = Slice(format(template, entry), max_chars)
    /\ UNCHANGED <<feeds, file_updated, dry_run, config_updated, has_error,
                   newest_post, feed_i, entries, log, exit_code, runs, posted,
                   failed, previous, template, entry, max_chars>>

NextCompose == Compose

SpecCompose == InitCompose /\ [][NextCompose]_vars

\* ---------------------------------------------------------------- claims
\* The positions of log holding an event op of feed f.
At(op, f) == {k \in DOMAIN log : log[k].op = op /\ log[k].feed = f}
AtAny(op) == {k \in DOMAIN log : log[k].op = op}

\* The update time of the entry an event is about.
UpdatedOf(ev) == EntryUpdated(feeds[ev.feed].entries[ev.entry])

IsOp(op, f, ev) == ev.op = op /\ ev.feed = f
RECURSIVE EntriesOf(_, _, _)
EntriesOf(op, f, evs) ==
    IF evs = <<>> THEN <<>>
    ELSE IF IsOp(op, f, Head(evs))
         THEN <<Head(evs).entry>> \o EntriesOf(op, f, Tail(evs))
         ELSE EntriesOf(op, f, Tail(evs))

InRun == pc \in {"feeds", "entries"}

\* C1: over any sequence of runs (live or dry, publishes succeeding or
\* failing, runs ending or aborting), no entry is posted successfully more
\* than once.
C1_PostedAtMostOnce == \A id \in EntryIds : posted[id] <= 1

\* C2: when a live run has reached its end, the watermark in the
\* configuration file is the maximum of the watermark the run was entered
\* with and the update times of all entries the loop iterated over,
\* the entries whose publish failed included.
C2_SavedWatermarkIsMax ==
    (pc = "exited" /\ ~dry_run) =>
        LET seen == {config_updated} \cup {UpdatedOf(log[k]) : k \in AtAny("compose")}
            saved == read_config(file_updated)
        IN saved \in seen /\ \A t \in seen : t <= saved

\* C2 witness: a live run with a failed publish has ended, and the saved
\* watermark is the failed entry's update time, above the one entered with.
C2_Witness ==
    /\ pc = "exited" /\ ~dry_run /\ has_error
    /\ \E k \in AtAny("fail") :
          /\ read_config(file_updated) = UpdatedOf(log[k])
          /\ UpdatedOf(log[k]) > config_updated
    /\ Cardinality(AtAny("compose")) >= 2

\* C3: no step lowers the watermark of the configuration file, and no step
\* of a run lowers the running watermark newest_post.
C3_WatermarkMonotone ==
    [][/\ read_config(file_updated') >= read_config(file_updated)
       /\ InRun => newest_post' >= newest_post]_vars

\* C3 witness: a second run is under way, the first one raised the saved
\* watermark, and this one has handled a new entry older than one it
\* handled before, so that the running watermark stayed above it.
C3_Witness ==
    /\ runs = 2 /\ InRun
    /\ read_config(file_updated) > MinTime
    /\ \E k \in AtAny("compose") :
          /\ UpdatedOf(log[k]) < newest_post
          /\ UpdatedOf(log[k]) > config_updated
          /\ \E j \in AtAny("compose") : j < k /\ UpdatedOf(log[j]) = newest_post

\* What get_feed yielded (SpecFetch).
Yielded == EntriesOf("yield", 1, log)
YieldedSet == {Yielded[k] : k \in DOMAIN Yielded}
Raw == feeds[1].entries

\* C4: a get_feed call that runs to its end yields, each once, exactly the
\* entries with update time strictly above the watermark, and every entry
\* when the watermark is None.
C4_FetchFilters ==
    pc = "gf_done" =>
        /\ Len(Yielded) = Cardinality(YieldedSet)
        /\ YieldedSet = IF config_updated = None
                        THEN DOMAIN Raw
                        ELSE {i \in DOMAIN Raw : EntryUpdated(Raw[i]) > config_updated}

\* C4 witness: the call ended having yielded one entry and left out an
\* entry updated exactly at the watermark.
C4_Witness ==
    /\ pc = "gf_done" /\ config_updated # None
    /\ Len(Yielded) = 1
    /\ \E i \in DOMAIN Raw : EntryUpdated(Raw[i]) = config_updated

\* C5: of two entries one get_feed call yields, the one updated earlier is
\* yielded first.
C5_YieldedChronologically ==
    \A j, k \in DOMAIN Yielded :
        EntryUpdated(Raw[Yielded[j]]) < EntryUpdated(Raw[Yielded[k]]) => j < k

Expected(g) == get_feed(feeds[g].entries, config_updated)

\* The first n elements of s.
Prefix(s, n) == SubSeq(s, 1, n)

\* C7: after a publish of an entry of feed f has failed in a live run:
\* the error flag is set; nothing more is logged for f (no later entry of
\* f is composed or published); and every feed after f that the loop has
\* gone through was fetched and had its new entries attempted in order, all
\* of them or up to its own first failure; a run that reaches its end has
\* gone through every feed.
C7_FailureStopsOnlyItsFeed ==
    \A k \in DOMAIN log :
        log[k].op = "fail" =>
            LET f == log[k].feed
            IN /\ has_error
               /\ \A j \in DOMAIN log : j > k => log[j].feed # f
               /\ feed_i = f => entries = <<>>
               /\ pc = "exited" => feed_i = Len(feeds) + 1
               /\ \A g \in (f + 1)..(feed_i - 1) :
                     LET tried == EntriesOf("compose", g, log)
                         expected == Expected(g)
                     IN /\ \E j \in DOMAIN log : IsOp("fetch", g, log[j])
                        /\ Len(tried) <= Len(expected)
                        /\ tried = Prefix(expected, Len(tried))
                        /\ Len(tried) < Len(expected) =>
                               \E j \in DOMAIN log : IsOp("fail", g, log[j])
                        /\ \A j \in DOMAIN log :
                               IsOp("compose", g, log[j]) =>
                                   /\ log[j + 1].op \in {"post", "fail"}
                                   /\ log[j + 1].entry = log[j].entry

\* C7 witness: the run ended after the first feed's first publish failed
\* with a new entry of that feed left, and the second feed's entry was
\* published.
C7_Witness ==
    /\ pc = "exited" /\ Len(feeds) = 2
    /\ At("fail", 1) # {} /\ Len(EntriesOf("compose", 1, log)) = 1
    /\ Len(Expected(1)) = 2
    /\ Len(EntriesOf("post", 2, log)) = 1

\* C8: the error flag is set exactly when a publish has failed in this run
\* (so it is never cleared), and a run that reaches its end exits with 1 if
\* a publish failed and with 0 otherwise; a dry run exits with 0.
C8_ExitCode ==
    LET publish_failed == \E k \in DOMAIN log : log[k].op = "fail"
    IN /\ (InRun \/ pc = "exited") => (has_error <=> publish_failed)
       /\ pc = "exited" => exit_code = (IF publish_failed THEN 1 ELSE 0)
       /\ (pc = "exited" /\ dry_run) => exit_code = 0

\* C8 witness: a run ended with code 1 although the feed after the failed
\* one was published without error.
C8_Witness ==
    /\ pc = "exited" /\ exit_code = 1
    /\ At("fail", 1) # {} /\ At("post", 2) # {} /\ At("fail", 2) = {}

\* C9: a dry run posts nothing, takes no delay and leaves the configuration
\* file as it is; when it reaches its end, every new entry of every feed
\* has been fetched and composed.
C9_DryRunChangesNothing ==
    [][/\ (dry_run /\ InRun) => file_updated' = file_updated
       /\ (dry_run' /\ pc' # "idle") =>
             \A k \in DOMAIN log' : log'[k].op \notin {"post", "fail", "sleep", "save"}
       /\ (dry_run' /\ pc' = "exited") =>
             \A g \in DOMAIN feeds :
                 EntriesOf("compose", g, log') = get_feed(feeds[g].entries, config_updated')
      ]_vars

\* C9 witness: a dry run over two feeds ended, having composed entries of
\* both, newer than the saved watermark, which is as before.
C9_Witness ==
    /\ pc = "exited" /\ dry_run
    /\ At("compose", 1) # {} /\ At("compose", 2) # {}
    /\ newest_post > config_updated
    /\ read_config(file_updated) = config_updated

\* C10: the running watermark is at or above the update time of every
\* entry composed so far, and an entry whose publish has failed is not
\* posted by any later step.
C10_FailedEntryNeverPosted ==
    [][/\ \A k \in DOMAIN log' : log'[k].op = "compose" =>
              newest_post' >= EntryUpdated(feeds[log'[k].feed].entries[log'[k].entry])
       /\ \A id \in failed : posted'[id] = posted[id]]_vars

\* C11: for every entry, template and max_chars >= 0, the composed status
\* text has at most max_chars characters and is the first max_chars
\* characters of the template with the entry's fields substituted (all of
\* it when it is shorter); composing with a template whose fields are all
\* among url, link, title, summary, content, hashtags, updated never fails.
C11_ComposeTruncates ==
    LET full == format(template, entry)
        known == \A k \in DOMAIN template :
                     template[k].kind = "field" => template[k].text \in Fields
    IN /\ (pc = "composed" /\ max_chars >= 0) =>
             /\ Len(status) <= max_chars
             /\ Len(status) = (IF Len(full) <= max_chars THEN Len(full) ELSE max_chars)
             /\ \A i \in 1..Len(status) : status[i] = full[i]
       /\ (pc \in {"composed", "compose_raised"} /\ known) => pc = "composed"

\* C11 witness: a template with a field and a literal was composed for an
\* entry with a two-character title and cut to one character.
C11_Witness ==
    /\ pc = "composed" /\ max_chars = 1
    /\ Len(template) = 2
    /\ template[1] = [kind |-> "field", text |-> "title"]
    /\ template[2].kind = "lit"
    /\ Len(entry.title) = 2
    /\ status = <<entry.title[1]>>

\* The positions of log' the step has written.
New == (Len(log) + 1)..Len(log')

\* C12: every step of a run that logs a successful publish logs one
\* delay directly after it, and every delay logged directly follows a
\* successful publish, so that exactly one delay lies between two
\* successive successful publishes, of one feed or of two; no delay
\* follows a failed publish, and a dry run takes none.
C12_OneDelayPerPost ==
    [][\A k \in New :
          /\ log'[k].op = "post" =>
                 k < Len(log') /\ log'[k + 1] = Event("sleep", log'[k].feed, log'[k].entry)
          /\ log'[k].op = "sleep" => k > 1 /\ log'[k - 1].op = "post" /\ ~dry_run'
          /\ log'[k].op = "fail" => k = Len(log')
          /\ (k > 1 /\ log'[k - 1].op = "fail") => log'[k].op # "sleep"
      ]_vars

\* C12 witness: a live run published an entry of the first feed and then
\* one of the second, with a failed publish in the run, and took two delays.
C12_Witness ==
    /\ ~dry_run /\ pc = "exited"
    /\ At("post", 1) # {} /\ At("post", 2) # {} /\ AtAny("fail") # {}
    /\ Cardinality(AtAny("sleep")) = 2

\* C13: get_feed is a function of the feed's content and the watermark,
\* and a dry run leaves the watermark as it is: when a dry run that
\* followed a dry run on the same feeds has reached its end as the first
\* one did, it has composed for every feed the statuses of the same
\* entries in the same order as the first one.
C13_DryRunsRepeat ==
    (pc = "exited" /\ dry_run /\ previous.dry /\ previous.ended) =>
        \A g \in DOMAIN feeds : Composed(g) = previous.composed[g]

\* C13 witness: the second of two dry runs has ended; both composed the
\* two new entries of a feed, the later-listed one first.
C13_Witness ==
    /\ pc = "exited" /\ dry_run /\ previous.dry /\ previous.ended
    /\ \E g \in DOMAIN feeds :
          /\ Len(Composed(g)) = 2
          /\ Composed(g)[1].entry > Composed(g)[2].entry
          /\ previous.composed[g] = Composed(g)

\* C14: a step that fetches a feed with a malformed entry timestamp, and
\* a step that handles an entry of a feed whose template names an unknown
\* field, raise and do nothing else: no status is composed or published,
\* the exception is not taken for a publish error, and the run is left
\* with a non-zero exit code; after that the run takes no step (no further
\* entry of that feed is composed or published), the next step starts
\* another run.
C14_ErrorPropagates ==
    [][/\ (pc = "feeds" /\ feed_i \in DOMAIN feeds
           /\ \E i \in DOMAIN feeds[feed_i].entries : ~feeds[feed_i].entries[i].ok) =>
              /\ pc' = "aborted" /\ exit_code' = 1 /\ has_error' = has_error
              /\ log' = Append(log, Event("raise", feed_i, 0))
       /\ (pc = "entries" /\ entries # <<>> /\ ~feeds[feed_i].template_ok) =>
              /\ pc' = "aborted" /\ exit_code' = 1 /\ has_error' = has_error
              /\ log' = Append(log, Event("raise", feed_i, Head(entries)))
       /\ pc = "aborted" => pc' = "feeds" /\ runs' = runs + 1 /\ log' = <<>>
       /\ \A k \in New : log'[k].op = "raise" => k = Len(log') /\ pc' = "aborted"
      ]_vars

\* C14 witness: a live run published an entry of the first feed and was
\* aborted by the template of the second feed, which has two new entries.
C14_Witness ==
    /\ pc = "aborted" /\ ~dry_run /\ Len(feeds) = 2
    /\ At("post", 1) # {}
    /\ ~feeds[2].template_ok /\ Len(Expected(2)) = 2
    /\ log[Len(log)] = Event("raise", 2, Head(Expected(2)))

\* C15: every fetch, compose and publish step of a run is about the feed
\* the loop is at, and the loop goes from a feed to the one listed next,
\* so that no step of a feed follows a step of a feed listed after it; the
\* file's watermark is changed by the save only, which is the run's last
\* step and comes when the loop has gone through every feed.
C15_FeedsInOrder ==
    [][/\ \A k \in New :
              /\ log'[k].op # "save" => log'[k].feed = feed_i /\ feed_i \in DOMAIN feeds
              /\ log'[k].op = "save" =>
                     /\ k = Len(log') /\ pc' = "exited" /\ feed_i = Len(feeds) + 1
                     /\ \A g \in DOMAIN feeds :
                            \E j \in 1..(k - 1) : log'[j] = Event("fetch", g, 0)
       /\ InRun => feed_i' \in {feed_i, feed_i + 1}
       /\ file_updated' # file_updated =>
              /\ InRun /\ pc' = "exited" /\ log'[Len(log')].op = "save"
      ]_vars

\* C15 witness: a live run over two feeds has ended with the save, after
\* it published an entry of each feed and raised the watermark.
C15_Witness ==
    /\ pc = "exited" /\ Len(feeds) = 2
    /\ At("post", 1) # {} /\ At("post", 2) # {}
    /\ log[Len(log)].op = "save"
    /\ read_config(file_updated) > config_updated

\* C16: no step of a run changes the watermark get_feed is given, and
\* every step that fetches a feed selects the entries of that feed newer
\* than the watermark the run read from the file, in get_feed's order,
\* whatever the feeds before it held and whatever became of their entries.
C16_FetchedWithEnteringWatermark ==
    [][/\ InRun => config_updated' = config_updated
       /\ (pc = "feeds" /\ pc' = "entries") =>
              /\ read_config(file_updated) = config_updated
              /\ entries' = get_feed(feeds[feed_i].entries, read_config(file_updated))
      ]_vars

\* C16 witness: the second feed has been fetched after the first feed's
\* entry raised the running watermark, and an entry older than the running
\* watermark is among those selected for it.
C16_Witness ==
    /\ pc = "entries" /\ feed_i = 2 /\ entries # <<>>
    /\ At("compose", 1) # {}
    /\ newest_post > config_updated
    /\ EntryUpdated(feeds[2].entries[Head(entries)]) < newest_post

\* C17: when a malformed timestamp or an unknown template field has
\* aborted a run, the watermark in the configuration file is the one the
\* run was entered with, whatever the run published before.
C17_AbortSavesNothing ==
    pc = "aborted" => read_config(file_updated) = config_updated

\* C17 witness: a live run was aborted in its second feed after it
\* published an entry of the first, newer than the watermark, which is
\* still the one in the file.
C17_Witness ==
    /\ pc = "aborted" /\ ~dry_run /\ feed_i = 2
    /\ \E k \in At("post", 1) : UpdatedOf(log[k]) > read_config(file_updated)
    /\ newest_post > config_updated

\* What the next run's get_feed gives for feed g, the feeds being as they are.
Refetched(g) == get_feed(feeds[g].entries, read_config(file_updated))

\* C18: with one feed whose entries have pairwise distinct update times,
\* when a live run in which the publish of entry E failed has ended, every
\* entry its fetch held after E is yielded by the next run's fetch.
C18_UnattemptedRefetched ==
    (/\ pc = "exited" /\ ~dry_run /\ Len(feeds) = 1
     /\ \A i, j \in DOMAIN feeds[1].entries :
            i # j => EntryUpdated(feeds[1].entries[i]) # EntryUpdated(feeds[1].entries[j]))
    => \A k \in At("fail", 1) :
           LET fetched == Expected(1)
               again == Refetched(1)
           IN \A p, q \in DOMAIN fetched :
                  (fetched[p] = log[k].entry /\ p < q) =>
                      \E r \in DOMAIN again : again[r] = fetched[q]

\* The entries of feed g newer than the watermark the run was entered with
\* that the run did not attempt, the loop of g having been left on a
\* publish error.
Unattempted(g) ==
    IF At("fail", g) = {} THEN {}
    ELSE LET fetched == Expected(g)
             tried == EntriesOf("compose", g, log)
         IN {fetched[q] : q \in (Len(tried) + 1)..Len(fetched)}

\* C19 as stated: when a live run has ended, every unattempted entry of
\* every feed has an update time strictly above the saved watermark.
C19_UnattemptedAboveSaved ==
    (pc = "exited" /\ ~dry_run) =>
        \A g \in DOMAIN feeds : \A e \in Unattempted(g) :
            EntryUpdated(feeds[g].entries[e]) > read_config(file_updated)

\* C19 amended: when a live run has ended, an unattempted entry is
\* yielded by the next run's fetch exactly when its update time is
\* strictly above the update time of every entry the run iterated over,
\* in its own feed and in the others.
C19_UnattemptedRefetchedIfNewest ==
    (pc = "exited" /\ ~dry_run) =>
        \A g \in DOMAIN feeds : \A e \in Unattempted(g) :
            (\E r \in DOMAIN Refetched(g) : Refetched(g)[r] = e)
            <=> \A k \in AtAny("compose") :
                    UpdatedOf(log[k]) < EntryUpdated(feeds[g].entries[e])

\* C19 witness: a live run has ended; in the first feed a publish failed
\* and left a newer entry unattempted; an entry of the second feed, at
\* least as new as that one, was published, and the next fetch of the
\* first feed does not yield the unattempted entry.
C19_Witness ==
    /\ pc = "exited" /\ ~dry_run /\ Len(feeds) = 2
    /\ \E e \in Unattempted(1) :
          /\ \A k \in At("fail", 1) : UpdatedOf(log[k]) < EntryUpdated(feeds[1].entries[e])
          /\ \E k \in At("post", 2) : UpdatedOf(log[k]) >= EntryUpdated(feeds[1].entries[e])
          /\ \A r \in DOMAIN Refetched(1) : Refetched(1)[r] # e

====
